---- MODULE Spec2Model ----
(***************************************************************************)
(* coursetools: the clipboard column splitter/joiner (codesplitter.py),    *)
(* the leading-space remover (rps.py), the Marp to HTML converters         *)
(* (marp2html.py, marp2html_enhanced.py) and the multi-repository git      *)
(* manager (githubsync.py).                                                *)
(*                                                                         *)
(* Clipboard texts are sequences of one-character strings.  Git messages   *)
(* are sequences of phrases (see the git section).                         *)
(***************************************************************************)
EXTENDS Integers, Sequences, FiniteSets, TLC

VARIABLES
    \* codesplitter.py
    code,              \* the clipboard text handed to split_code_into_columns
    num_columns,       \* columns_spinbox.value()
    add_line_numbers,  \* line_numbers_checkbox.isChecked()
    split_result,      \* result of split_code_into_columns
    joined_result,     \* result of join_code_columns on the clipboard text
    cs_clipboard,      \* QApplication.clipboard().text()
    join_columns_btn,  \* isEnabled()
    cs_pc,             \* "input" -> "split" -> "copied" -> "joined"
    \* rps.py
    text,              \* the text handed to remove_prepended_spaces
    processed,         \* successive results of remove_prepended_spaces
    rps_output_text,   \* output_text.toPlainText()
    rps_clipboard,     \* self.clipboard.text()
    copy_button,       \* isEnabled()
    \* marp2html.py, marp2html_enhanced.py
    config_file,       \* what marp_converter_config.json holds
    left_percentage,   \* self.left_percentage
    html_flex,         \* the two flex percentages of the HTML shown last
    marp_pc,           \* "start" -> "loaded" -> "ready" -> "closed", or "crashed"
    \* githubsync.py: GitDiagnostics.analyze_error on its own
    error_message,     \* the message handed to analyze_error
    error_info,        \* its result
    \* githubsync.py: GitRepoManager
    repositories,      \* self.repositories
    worker,            \* self.worker: a worker, or None
    pull_button,       \* isEnabled() of the three buttons
    push_button,
    refresh_button,
    error_widgets,     \* self.error_widgets
    clicks,            \* the buttons pressed so far
    \* githubsync.py: GitWorker threads and the signals queued to the GUI thread
    threads,
    gui_queue,
    \* the log of one observed worker
    probe,             \* the observed worker, or None
    trace,             \* what it did for the current repository, in order
    result,            \* the result signal of the current repository
    emitted,           \* the signals it emitted so far, <<kind, i>>
    first_failure,     \* stderr and analysis of its first operation that git failed
    \* the log of the retries
    errored,           \* the repositories self.worker emitted error_output for
    retry_log          \* the last retry: what it came from and what it started

csVars == <<code, num_columns, add_line_numbers, split_result, joined_result, cs_clipboard,
           join_columns_btn, cs_pc>>
rpsVars == <<text, processed, rps_output_text, rps_clipboard, copy_button>>
marpVars == <<config_file, left_percentage, html_flex, marp_pc>>
analyzeVars == <<error_message, error_info>>
gitVars == <<repositories, worker, pull_button, push_button, refresh_button, error_widgets, clicks,
             threads, gui_queue, probe, trace, result, emitted, first_failure,
             errored, retry_log>>

(***************************************************************************)
(* Bounds                                                                  *)
(***************************************************************************)
MaxLines == 3          \* lines of a codesplitter input
MaxTextLen == 5        \* characters of a leading-space-remover input
MaxMsgLen == 2         \* phrases of a message handed to analyze_error
NumRepos == 2          \* repositories under the base directory
MaxStarts == 2         \* workers started in one run of the manager
MaxQueue == 2          \* signals waiting for the GUI thread
MaxClicks == 2         \* buttons the user presses in one run of the manager

(***************************************************************************)
(* Python str operations on character sequences                            *)
(***************************************************************************)
\* the characters str.strip() / \s treat as whitespace (those of the alphabets used here)
WhiteSpace == {" ", "\t", "\n", "\r"}
Digits == {"0", "1", "2", "3", "4", "5", "6", "7", "8", "9"}

Max(a, b) == IF a >= b THEN a ELSE b
Min(a, b) == IF a <= b THEN a ELSE b

\* the least and the greatest element of a non-empty set of integers
SetMin(S) == CHOOSE i \in S : \A j \in S : i <= j
SetMax(S) == CHOOSE i \in S : \A j \in S : i >= j

\* s.lstrip(chars)
LStripSet(s, cs) ==
    LET keep == {i \in 1..Len(s) : s[i] \notin cs}
    IN IF keep = {} THEN <<>> ELSE SubSeq(s, SetMin(keep), Len(s))

\* s.rstrip(chars)
RStripSet(s, cs) ==
    LET keep == {i \in 1..Len(s) : s[i] \notin cs}
    IN IF keep = {} THEN <<>> ELSE SubSeq(s, 1, SetMax(keep))

\* s.strip(), s.rstrip()
Strip(s) == LStripSet(RStripSet(s, WhiteSpace), WhiteSpace)
RStrip(s) == RStripSet(s, WhiteSpace)

\* c in s
Contains(s, c) == \E i \in 1..Len(s) : s[i] = c

\* index of the first c in s at or after position i, 0 when there is none
IndexOf(s, c, i) ==
    LET hits == {k \in i..Len(s) : s[k] = c}
    IN IF hits = {} THEN 0 ELSE SetMin(hits)

RECURSIVE SplitOn(_, _)
\* s.split(c) for a one-character separator: always at least one part
SplitOn(s, c) ==
    LET k == IndexOf(s, c, 1)
    IN IF k = 0 THEN <<s>>
       ELSE <<SubSeq(s, 1, k - 1)>> \o SplitOn(SubSeq(s, k + 1, Len(s)), c)

RECURSIVE JoinWith(_, _)
\* sep.join(parts)
JoinWith(parts, sep) ==
    IF parts = <<>> THEN <<>>
    ELSE IF Len(parts) = 1 THEN parts[1]
    ELSE parts[1] \o sep \o JoinWith(Tail(parts), sep)

RECURSIVE ReplaceCRLF(_)
\* s.replace('\r\n', '\n')
ReplaceCRLF(s) ==
    LET k == IndexOf(s, "\r", 1)
    IN IF k = 0 THEN s
       ELSE IF k < Len(s) /\ s[k + 1] = "\n"
            THEN SubSeq(s, 1, k - 1) \o <<"\n">> \o ReplaceCRLF(SubSeq(s, k + 2, Len(s)))
            ELSE SubSeq(s, 1, k) \o ReplaceCRLF(SubSeq(s, k + 1, Len(s)))

\* s.replace('\r', '\n')
ReplaceCR(s) == [i \in 1..Len(s) |-> IF s[i] = "\r" THEN "\n" ELSE s[i]]

\* code.replace('\r\n', '\n').replace('\r', '\n').split('\n')
NormalisedLines(s) == SplitOn(ReplaceCR(ReplaceCRLF(s)), "\n")

RECURSIVE PopBlankTail(_)
\* while lines and not lines[-1].strip(): lines.pop()
PopBlankTail(lines) ==
    IF lines # <<>> /\ Strip(lines[Len(lines)]) = <<>>
    THEN PopBlankTail(SubSeq(lines, 1, Len(lines) - 1)) ELSE lines

Spaces(n) == [i \in 1..n |-> " "]
\* s.ljust(w), s.rjust(w)
LJust(s, w) == IF Len(s) >= w THEN s ELSE s \o Spaces(w - Len(s))
RJust(s, w) == IF Len(s) >= w THEN s ELSE Spaces(w - Len(s)) \o s

DigitChar(d) == CASE d = 0 -> "0" [] d = 1 -> "1" [] d = 2 -> "2" [] d = 3 -> "3"
                  [] d = 4 -> "4" [] d = 5 -> "5" [] d = 6 -> "6" [] d = 7 -> "7"
                  [] d = 8 -> "8" [] d = 9 -> "9"
RECURSIVE Str(_)
\* str(n) for n >= 0
Str(n) == IF n < 10 THEN <<DigitChar(n)>> ELSE Str(n \div 10) \o <<DigitChar(n % 10)>>

\* first position at or after i whose character is not in cs (Len(s)+1 when none)
SkipSet(s, cs, i) ==
    LET stop == {k \in i..Len(s) : s[k] \notin cs}
    IN IF stop = {} THEN Max(i, Len(s) + 1) ELSE SetMin(stop)

\* re.match(r'^\s*\d+:\s*', line): 0 when there is no match, else the end of the match
LineNumMatchEnd(line) ==
    LET d0 == SkipSet(line, WhiteSpace, 1)
        d1 == SkipSet(line, Digits, d0)
    IN IF d1 > d0 /\ d1 <= Len(line) /\ line[d1] = ":"
       THEN SkipSet(line, WhiteSpace, d1 + 1) - 1
       ELSE 0

\* re.sub(line_num_pattern, '', line) guarded by re.match(line_num_pattern, line)
StripLineNumber(line) ==
    IF LineNumMatchEnd(line) > 0
    THEN SubSeq(line, LineNumMatchEnd(line) + 1, Len(line))
    ELSE line

RECURSIVE MaxLen(_)
\* max(len(x) for x in xs), 0 for the empty list
MaxLen(xs) == IF xs = <<>> THEN 0 ELSE Max(Len(Head(xs)), MaxLen(Tail(xs)))

RECURSIVE Flatten(_)
Flatten(xss) == IF xss = <<>> THEN <<>> ELSE Head(xss) \o Flatten(Tail(xss))

\* the characters of a string literal are written out as a sequence
NoCodeToSplit == <<"N","o"," ","c","o","d","e"," ","t","o"," ","s","p","l","i","t">>
NoCodeToJoin == <<"N","o"," ","c","o","d","e"," ","t","o"," ","j","o","i","n">>

(***************************************************************************)
(* codesplitter.py                                                         *)
(***************************************************************************)
MinColumnWidth == 40

\* lines after optional numbering (split_code_into_columns, "Add line numbers")
NumberedLines(lines) ==
    LET line_num_width == Len(Str(Len(lines)))
    IN [i \in 1..Len(lines) |-> RJust(Str(i), line_num_width) \o <<":", " ">> \o lines[i]]

\* mutant: the extra lines go to the last columns
ColumnLines_last(lines, n, col) ==
    LET total_lines == Len(lines)
        lines_per_column == total_lines \div n
        remainder == total_lines % n
        start_idx == col * lines_per_column + Max(0, col - (n - remainder))
        column_size == lines_per_column + (IF col >= n - remainder THEN 1 ELSE 0)
    IN SubSeq(lines, start_idx + 1, start_idx + column_size)

\* column col (0-based) of the distribution: lines[start_idx:end_idx]
ColumnLines(lines, n, col) ==
    LET total_lines == Len(lines)
        lines_per_column == total_lines \div n
        remainder == total_lines % n
        start_idx == col * lines_per_column + Min(col, remainder)
        column_size == lines_per_column + (IF col < remainder THEN 1 ELSE 0)
    IN SubSeq(lines, start_idx + 1, start_idx + column_size)

split_code_into_columns(c, n, numbered) ==
    LET raw == PopBlankTail(NormalisedLines(c))
        lines == IF numbered THEN NumberedLines(raw) ELSE raw
        columns == [k \in 1..n |-> ColumnLines(lines, n, k - 1)]
        column_width == Max(MaxLen(lines) + 2, MinColumnWidth)
        max_column_height == MaxLen(columns)
        line_parts(row) ==
            [k \in 1..n |-> IF row <= Len(columns[k])
                            THEN LJust(columns[k][row], column_width)
                            ELSE Spaces(column_width)]
        result_lines ==
            [row \in 1..max_column_height |-> RStrip(JoinWith(line_parts(row), <<"|">>))]
    IN IF raw = <<>> THEN NoCodeToSplit
       ELSE IF n = 1 THEN JoinWith(lines, <<"\n">>)
       ELSE JoinWith(result_lines, <<"\n">>)

join_code_columns(s) ==
    LET lines == PopBlankTail(NormalisedLines(s))
        single == [i \in 1..Len(lines) |-> StripLineNumber(lines[i])]
        all_columns ==
            [i \in 1..Len(lines) |->
                IF Contains(lines[i], "|")
                THEN LET parts == SplitOn(lines[i], "|")
                     IN [k \in 1..Len(parts) |-> RStrip(parts[k])]
                ELSE <<RStrip(lines[i])>>]
        max_columns == MaxLen(all_columns)
        cell(col_idx, r) ==
            IF col_idx <= Len(all_columns[r]) /\ Strip(all_columns[r][col_idx]) # <<>>
            THEN <<StripLineNumber(all_columns[r][col_idx])>>
            ELSE <<>>
        column(col_idx) == Flatten([r \in 1..Len(all_columns) |-> cell(col_idx, r)])
        result_lines == Flatten([col_idx \in 1..max_columns |-> column(col_idx)])
    IN IF lines = <<>> THEN NoCodeToJoin
       ELSE IF ~Contains(s, "|") THEN JoinWith(single, <<"\n">>)
       ELSE JoinWith(result_lines, <<"\n">>)

\* the lines a clipboard text is assembled from, and the line endings
SampleLines == { <<>>, <<"a">>, <<" ", "a">>, <<"b", "|">>, <<"1", ":", "a">> }
LineEndings == { <<"\n">>, <<"\r", "\n">>, <<"\r">> }
SampleTexts ==
    UNION { { JoinWith(ls, e) : ls \in [1..k -> SampleLines], e \in LineEndings }
            : k \in 1..MaxLines }

CsIdle ==
    /\ code = <<>> /\ num_columns = 2 /\ add_line_numbers = FALSE
    /\ split_result = <<>> /\ joined_result = <<>> /\ cs_clipboard = <<>>
    /\ join_columns_btn = FALSE /\ cs_pc = "idle"

\* the clipboard holds any text with something in it; the spinbox is 1..4
CsInit ==
    /\ code \in { t \in SampleTexts : Strip(t) # <<>> }
    /\ cs_clipboard = code
    /\ num_columns \in 1..4
    /\ add_line_numbers \in BOOLEAN
    /\ split_result = <<>>
    /\ joined_result = <<>>
    /\ join_columns_btn = FALSE
    /\ cs_pc = "input"

\* read_and_split: split the clipboard text and show it
read_and_split ==
    /\ cs_pc = "input"
    /\ Strip(cs_clipboard) # <<>>
    /\ split_result' = split_code_into_columns(cs_clipboard, num_columns, add_line_numbers)
    /\ join_columns_btn' = FALSE
    /\ cs_pc' = "split"
    /\ UNCHANGED <<code, num_columns, add_line_numbers, joined_result, cs_clipboard>>

\* any(re.match(r'^\s*\d+:\s*', line) for line in code.split('\n'))
HasLineNumbers(s) ==
    \E k \in 1..Len(SplitOn(s, "\n")) : LineNumMatchEnd(SplitOn(s, "\n")[k]) > 0

\* copy_result after a split: the text to copy is chosen, put on the
\* clipboard, and the join button is enabled when the text can be joined
copy_result ==
    LET original_text == code
        result_text ==
            IF Contains(split_result, "|") /\ ~Contains(original_text, "|")
               /\ Len(Strip(original_text)) > Len(Strip(split_result))
            THEN original_text ELSE split_result
    IN
    /\ cs_pc = "split"
    /\ Strip(result_text) # <<>>
    /\ cs_clipboard' = result_text
    /\ join_columns_btn' = (Contains(result_text, "|") \/ HasLineNumbers(result_text))
    /\ cs_pc' = "copied"
    /\ UNCHANGED <<code, num_columns, add_line_numbers, split_result, joined_result>>

\* join_columns: the clipboard text is joined, or refused with a message
\* when it has neither a separator nor a line number
join_columns ==
    /\ cs_pc = "copied"
    /\ join_columns_btn
    /\ Strip(cs_clipboard) # <<>>
    /\ IF ~Contains(cs_clipboard, "|") /\ ~HasLineNumbers(cs_clipboard)
       THEN UNCHANGED <<joined_result, join_columns_btn, cs_pc>>
       ELSE /\ joined_result' = join_code_columns(cs_clipboard)
            /\ join_columns_btn' = FALSE
            /\ cs_pc' = "joined"
    /\ UNCHANGED <<code, num_columns, add_line_numbers, split_result, cs_clipboard>>

(***************************************************************************)
(* rps.py                                                                  *)
(***************************************************************************)
\* len(line) - len(line.lstrip(' '))
LeadingSpaces(line) == Len(line) - Len(LStripSet(line, {" "}))

RECURSIVE FirstNonEmpty(_, _)
\* index of the first line with line.strip() true, 0 when there is none
FirstNonEmpty(lines, i) ==
    IF i > Len(lines) THEN 0
    ELSE IF Strip(lines[i]) # <<>> THEN i ELSE FirstNonEmpty(lines, i + 1)

has_prepended_spaces(t) ==
    LET lines == SplitOn(t, "\n")
        first == FirstNonEmpty(lines, 1)
    IN IF Strip(t) = <<>> THEN [has |-> FALSE, spaces |-> 0]
       ELSE IF Strip(lines[1]) = <<>>
            THEN IF first = 0 THEN [has |-> FALSE, spaces |-> 0]
                 ELSE [has |-> LeadingSpaces(lines[first]) > 0,
                       spaces |-> LeadingSpaces(lines[first])]
            ELSE [has |-> LeadingSpaces(lines[1]) > 0, spaces |-> LeadingSpaces(lines[1])]

\* mutant: N is read off line 1 even when line 1 is blank
remove_prepended_spaces_line1(t) ==
    LET lines == SplitOn(t, "\n")
        spaces_to_remove == LeadingSpaces(lines[1])
        processed_lines ==
            [i \in 1..Len(lines) |->
                IF Strip(lines[i]) # <<>>
                THEN SubSeq(lines[i], Min(spaces_to_remove, LeadingSpaces(lines[i])) + 1,
                            Len(lines[i]))
                ELSE lines[i]]
    IN IF Strip(t) = <<>> THEN t
       ELSE IF spaces_to_remove = 0 THEN t
       ELSE JoinWith(processed_lines, <<"\n">>)

\* mutant: N characters are cut from every non-blank line, spaces or not
remove_prepended_spaces_cut(t) ==
    LET lines == SplitOn(t, "\n")
        first_non_empty_idx == FirstNonEmpty(lines, 1)
        spaces_to_remove ==
            IF first_non_empty_idx = 0 THEN 0 ELSE LeadingSpaces(lines[first_non_empty_idx])
        processed_lines ==
            [i \in 1..Len(lines) |->
                IF Strip(lines[i]) # <<>>
                THEN SubSeq(lines[i], spaces_to_remove + 1, Len(lines[i]))
                ELSE lines[i]]
    IN IF Strip(t) = <<>> THEN t
       ELSE IF first_non_empty_idx = 0 \/ spaces_to_remove = 0 THEN t
       ELSE JoinWith(processed_lines, <<"\n">>)

remove_prepended_spaces(t) ==
    LET lines == SplitOn(t, "\n")
        first_non_empty_idx == FirstNonEmpty(lines, 1)
        spaces_to_remove ==
            IF first_non_empty_idx = 0 THEN 0 ELSE LeadingSpaces(lines[first_non_empty_idx])
        processed_lines ==
            [i \in 1..Len(lines) |->
                IF Strip(lines[i]) # <<>>
                THEN SubSeq(lines[i], Min(spaces_to_remove, LeadingSpaces(lines[i])) + 1,
                            Len(lines[i]))
                ELSE lines[i]]
    IN IF Strip(t) = <<>> THEN t
       ELSE IF first_non_empty_idx = 0 \/ spaces_to_remove = 0 THEN t
       ELSE JoinWith(processed_lines, <<"\n">>)

RpsChars == {" ", "\t", "x", "\n"}
RpsTexts == UNION { [1..k -> RpsChars] : k \in 0..MaxTextLen }

\* what the clipboard holds when the tool is started
RpsClips == { <<>>, <<" ", "\n">>, <<" ", "x">> }

RpsIdle ==
    /\ text = <<>> /\ processed = <<>>
    /\ rps_output_text = <<>> /\ rps_clipboard = <<>> /\ copy_button = FALSE

\* init_ui: the Copy Result button disabled, the output empty; the user has
\* typed or pasted a text
RpsInit ==
    /\ text \in RpsTexts
    /\ processed = <<>>
    /\ rps_output_text = <<>>
    /\ rps_clipboard \in RpsClips
    /\ copy_button = FALSE

\* remove_prepended_spaces applied to the text, then to its own result
RemoveSpaces ==
    /\ Len(processed) < 2
    /\ processed' = Append(processed,
            remove_prepended_spaces(IF processed = <<>> THEN text
                                    ELSE processed[Len(processed)]))
    /\ UNCHANGED <<text, rps_output_text, rps_clipboard, copy_button>>

\* load_clipboard: the clipboard text becomes the input, unless it is blank
\* (processed follows the input: nothing has been applied to the new text)
load_clipboard ==
    /\ Strip(rps_clipboard) # <<>>
    /\ text' = rps_clipboard
    /\ processed' = <<>>
    /\ UNCHANGED <<rps_output_text, rps_clipboard, copy_button>>

\* verify_processing: the first element of the pair it returns
verify_processing(original, processed_text) ==
    LET orig == has_prepended_spaces(original)
        proc == has_prepended_spaces(processed_text)
    IN IF ~orig.has THEN FALSE
       ELSE IF original = processed_text THEN FALSE
       ELSE IF proc.has /\ proc.spaces >= orig.spaces THEN FALSE
       ELSE TRUE

\* mutant: the result is shown and copied without the pre-check
process_text_unchecked ==
    /\ Strip(text) # <<>>
    /\ rps_output_text' = remove_prepended_spaces(text)
    /\ rps_clipboard' = remove_prepended_spaces(text)
    /\ copy_button' = TRUE
    /\ UNCHANGED <<text, processed>>

\* process_text: the Process button
process_text ==
    LET input_text == text
        processed_text == remove_prepended_spaces(input_text)
    IN
    /\ IF Strip(input_text) = <<>> \/ ~has_prepended_spaces(input_text).has
       THEN UNCHANGED <<rps_output_text, rps_clipboard, copy_button>>
       ELSE /\ rps_output_text' = processed_text
            /\ IF verify_processing(input_text, processed_text)
               THEN rps_clipboard' = processed_text /\ copy_button' = TRUE
               ELSE UNCHANGED <<rps_clipboard, copy_button>>
    /\ UNCHANGED <<text, processed>>

\* copy_result of rps.py: the Copy Result button
copy_result_text ==
    /\ copy_button
    /\ Strip(rps_output_text) # <<>>
    /\ rps_clipboard' = rps_output_text
    /\ UNCHANGED <<text, processed, rps_output_text, copy_button>>

(***************************************************************************)
(* marp2html.py and marp2html_enhanced.py                                  *)
(*                                                                         *)
(* The two converters have the same load_config, save_config, spinbox and  *)
(* handlers, and write the two flex percentages the same way; the line     *)
(* numbers are those of marp2html.py.  A number is a record of its Python  *)
(* type and ten times its value, so that 50.5 is [t |-> "float", x10 |->   *)
(* 505].                                                                   *)
(***************************************************************************)
Number(t, x10) == [t |-> t, x10 |-> x10]
IntValue(n) == Number("int", 10 * n)

\* json.load of the config file: no file, a text that is not JSON or not an
\* object, or an object with or without the key left_percentage
ConfigContents ==
    { [file |-> "missing", value |-> Number("absent", 0)],
      [file |-> "invalid", value |-> Number("absent", 0)] }
    \cup { [file |-> "object", value |-> v] :
             v \in { IntValue(n) : n \in {5, 10, 37, 50, 90, 95} }
                   \cup { Number("float", x) : x \in {95, 100, 500, 505, 900, 955} }
                   \cup { Number("bool", 10), Number("str", 0), Number("null", 0),
                          Number("absent", 0) } }

\* save_config: json.dump({'left_percentage': percentage})
save_config(percentage) == [file |-> "object", value |-> percentage]

\* load_config: the value it returns
load_config(config) ==
    LET percentage == IF config.value.t = "absent" THEN IntValue(50) ELSE config.value
        \* min(90, percentage) and max(10, ...) keep their first argument
        \* unless the second one is smaller, or greater
        capped == IF percentage.x10 < 900 THEN percentage ELSE IntValue(90)
    IN IF config.file # "object" THEN IntValue(50)
       ELSE IF percentage.t \in {"str", "null"} THEN IntValue(50)
       ELSE IF capped.x10 > 100 THEN capped ELSE IntValue(10)

\* the values the user turns the spinbox to, out of its range 10..90
SpinValues == {10, 11, 37, 50, 63, 89, 90}

\* parse_marp_to_html: left_percentage and right_percentage of the two divs
parse_marp_to_html(left) == <<left, Number(left.t, 1000 - left.x10)>>

MarpIdle ==
    /\ config_file = save_config(IntValue(50)) /\ left_percentage = IntValue(50)
    /\ html_flex = <<>> /\ marp_pc = "idle"

MarpInit ==
    /\ config_file \in ConfigContents
    /\ left_percentage = IntValue(50)
    /\ html_flex = <<>>
    /\ marp_pc = "start"

\* __init__: self.left_percentage = self.load_config(); a missing file is
\* created with the default
MarpLoad ==
    /\ marp_pc = "start"
    /\ left_percentage' = load_config(config_file)
    /\ config_file' = IF config_file.file = "missing" THEN save_config(IntValue(50))
                      ELSE config_file
    /\ marp_pc' = "loaded"
    /\ UNCHANGED html_flex

\* init_ui: percentage_spinbox.setValue(self.left_percentage) before the
\* signal is connected.  With a float the binding raises TypeError, which
\* ends the program, or converts the argument, which leaves the attribute
\* as it is
init_ui ==
    /\ marp_pc = "loaded"
    /\ \/ marp_pc' = "ready"
       \/ left_percentage.t = "float" /\ marp_pc' = "crashed"
    /\ UNCHANGED <<config_file, left_percentage, html_flex>>

\* on_percentage_changed(value), with or without text in the input area
on_percentage_changed ==
    /\ marp_pc = "ready"
    /\ \E value \in SpinValues, has_content \in BOOLEAN :
         /\ IntValue(value) # left_percentage   \* valueChanged: the value changed
         /\ left_percentage' = IntValue(value)
         /\ config_file' = save_config(IntValue(value))
         /\ html_flex' = IF has_content THEN parse_marp_to_html(IntValue(value))
                         ELSE html_flex
    /\ UNCHANGED marp_pc

\* convert_content with text in the input area
convert_content ==
    /\ marp_pc = "ready"
    /\ html_flex' = parse_marp_to_html(left_percentage)
    /\ UNCHANGED <<config_file, left_percentage, marp_pc>>

\* closeEvent: the percentage is saved; the program can be started again
closeEvent ==
    /\ marp_pc = "ready"
    /\ config_file' = save_config(left_percentage)
    /\ left_percentage' = IntValue(50)
    /\ html_flex' = <<>>
    /\ marp_pc' = "start"

(***************************************************************************)
(* githubsync.py: texts                                                    *)
(*                                                                         *)
(* A git message is a sequence of phrases.  A phrase is a piece of text    *)
(* that git, the file system or the worker produces as a whole; the code's *)
(* searches ("x" in text.lower()) look inside each phrase.  Lower and      *)
(* SubstringsOf tabulate str.lower() and the in operator for the phrases   *)
(* used here.                                                              *)
(***************************************************************************)
\* str.lower() on a phrase
Lower(p) ==
    CASE p = "Updates were rejected because the tip of your current branch is behind" ->
             "updates were rejected because the tip of your current branch is behind"
      [] p = "Your branch and 'origin/main' have diverged" ->
             "your branch and 'origin/main' have diverged"
      [] p = "fatal: Authentication failed" ->
             "fatal: authentication failed"
      [] p = "Permission denied (publickey)." ->
             "permission denied (publickey)."
      [] p = "fatal: Could not read from remote repository." ->
             "fatal: could not read from remote repository."
      [] p = "error: cannot pull with rebase: You have uncommitted changes." ->
             "error: cannot pull with rebase: you have uncommitted changes."
      [] p = "Could not resolve host: github.com" ->
             "could not resolve host: github.com"
      [] p = "Network is unreachable" ->
             "network is unreachable"
      [] p = "Connection refused" ->
             "connection refused"
      [] p = "Operation timeout" ->
             "operation timeout"
      [] p = "fatal: Unable to create index.lock" ->
             "fatal: unable to create index.lock"
      [] p = "Everything up-to-date" ->
             "everything up-to-date"
      [] p = "Already up to date." ->
             "already up to date."
      [] p = "Updating 3f2a1c0..9b8d7e6" ->
             "updating 3f2a1c0..9b8d7e6"
      [] p = "To github.com:course/labs.git" ->
             "to github.com:course/labs.git"
      [] p = "[main 1a2b3c4] Auto-commit before push" ->
             "[main 1a2b3c4] auto-commit before push"
      [] p = "No uncommitted changes found in" ->
             "no uncommitted changes found in"
      [] p = "Nothing new to commit (working tree clean)" ->
             "nothing new to commit (working tree clean)"
      [] p = "Command '['git', 'pull']' timed out after 30 seconds" ->
             "command '['git', 'pull']' timed out after 30 seconds"
      [] p = "Command '['git', 'add', '.']' timed out after 30 seconds" ->
             "command '['git', 'add', '.']' timed out after 30 seconds"
      [] p = "Command '['git', 'commit', '-m', ...]' timed out after 30 seconds" ->
             "command '['git', 'commit', '-m', ...]' timed out after 30 seconds"
      [] p = "Command '['git', 'push']' timed out after 30 seconds" ->
             "command '['git', 'push']' timed out after 30 seconds"
      [] p = "Command '['git', 'status', '--porcelain']' timed out after 10 seconds" ->
             "command '['git', 'status', '--porcelain']' timed out after 10 seconds"
      [] p = "Command '['git', 'branch', '--show-current']' timed out after 10 seconds" ->
             "command '['git', 'branch', '--show-current']' timed out after 10 seconds"
      [] p = "Command '['git', 'remote', '-v']' timed out after 10 seconds" ->
             "command '['git', 'remote', '-v']' timed out after 10 seconds"
      [] OTHER -> p

\* the search strings of githubsync.py that occur (case-sensitively) inside a phrase
SubstringsOf(p) ==
    CASE p = "! [rejected] main -> main (non-fast-forward)" ->
             {"non-fast-forward"}
      [] p = "Updates were rejected because the tip of your current branch is behind" ->
             {"tip of your current branch is behind"}
      [] p = "updates were rejected because the tip of your current branch is behind" ->
             {"tip of your current branch is behind"}
      [] p = "but no such ref was fetched." ->
             {"no such ref was fetched"}
      [] p = "refs/heads/master" ->
             {"master"}
      [] p = "Your branch and 'origin/main' have diverged" ->
             {"have diverged"}
      [] p = "your branch and 'origin/main' have diverged" ->
             {"have diverged"}
      [] p = "fatal: authentication failed" ->
             {"authentication"}
      [] p = "permission denied (publickey)." ->
             {"permission denied"}
      [] p = "fatal: could not read from remote repository." ->
             {"fatal: could not read"}
      [] p = "error: cannot pull with rebase: You have uncommitted changes." ->
             {"uncommitted changes"}
      [] p = "error: cannot pull with rebase: you have uncommitted changes." ->
             {"uncommitted changes"}
      [] p = "nothing to commit, working tree clean" ->
             {"working tree clean", "nothing to commit"}
      [] p = "could not resolve host: github.com" ->
             {"could not resolve"}
      [] p = "network is unreachable" ->
             {"network"}
      [] p = "connection refused" ->
             {"connection"}
      [] p = "Operation timeout" ->
             {"timeout"}
      [] p = "operation timeout" ->
             {"timeout"}
      [] p = "Everything up-to-date" ->
             {"up-to-date"}
      [] p = "everything up-to-date" ->
             {"up-to-date"}
      [] p = "Already up to date." ->
             {"up to date"}
      [] p = "already up to date." ->
             {"up to date", "already up to date"}
      [] p = "network-labs" ->
             {"network"}
      [] p = "network.md" ->
             {"network"}
      [] p = "No uncommitted changes found in" ->
             {"uncommitted changes"}
      [] p = "no uncommitted changes found in" ->
             {"uncommitted changes"}
      [] p = "Nothing new to commit (working tree clean)" ->
             {"working tree clean"}
      [] p = "nothing new to commit (working tree clean)" ->
             {"working tree clean"}
      [] OTHER -> {}

\* error_message.lower()
LowerText(m) == [i \in 1..Len(m) |-> Lower(m[i])]

\* k in m   (case-sensitive, as Python's in)
Has(m, k) == \E i \in 1..Len(m) : k \in SubstringsOf(m[i])

\* the first characters of a result message
OkMark == "(check)"
WarnMark == "(warning)"
ErrMark == "(cross)"

(***************************************************************************)
(* githubsync.py: GitDiagnostics                                           *)
(***************************************************************************)
Unknown ==
    [type |-> "unknown", fix_available |-> FALSE, commands |-> <<>>]

\* the if/elif chain of analyze_error over the lower-cased message
ClassifyLowered(error_lower) ==
    IF Has(error_lower, "non-fast-forward")
       \/ Has(error_lower, "tip of your current branch is behind")
    THEN [type |-> "non_fast_forward", fix_available |-> TRUE,
          commands |-> <<"git pull --rebase", "git push">>]
    ELSE IF Has(error_lower, "no such ref was fetched") /\ Has(error_lower, "master")
    THEN [type |-> "branch_mismatch", fix_available |-> TRUE,
          commands |-> <<"git fetch origin",
                         "git checkout -b main origin/main || git checkout main",
                         "git branch --set-upstream-to=origin/main main">>]
    ELSE IF Has(error_lower, "have diverged")
    THEN [type |-> "diverged_branches", fix_available |-> TRUE,
          commands |-> <<"git fetch origin", "git pull --rebase">>]
    ELSE IF Has(error_lower, "authentication") \/ Has(error_lower, "permission denied")
       \/ Has(error_lower, "fatal: could not read")
    THEN [type |-> "auth_error", fix_available |-> FALSE, commands |-> <<>>]
    ELSE IF Has(error_lower, "uncommitted changes") \/ Has(error_lower, "working tree clean")
    THEN [type |-> "uncommitted_changes", fix_available |-> TRUE,
          commands |-> <<"git stash push -m \"Auto-stash before pull\"",
                         "git pull", "git stash pop">>]
    ELSE IF Has(error_lower, "network") \/ Has(error_lower, "timeout")
       \/ Has(error_lower, "connection") \/ Has(error_lower, "could not resolve")
    THEN [type |-> "network_error", fix_available |-> FALSE, commands |-> <<>>]
    ELSE Unknown

\* mutant: the message is searched as it is, without lower()
analyze_error_case_sensitive(message) == ClassifyLowered(message)

analyze_error(message) == ClassifyLowered(LowerText(message))

\* what subprocess.run gives back: a CompletedProcess, or TimeoutExpired raised
Completed(rc, out, err) ==
    [raised |-> FALSE, returncode |-> rc, stdout |-> out, stderr |-> err]
TimeoutExpired(what) ==
    [raised |-> TRUE, returncode |-> 0, stdout |-> <<>>, stderr |-> <<what>>]
\* str(e) of the exception
ExcText(res) == res.stderr

\* "nothing to commit" in rps_output_text or "nothing added to commit" in rps_output_text
NothingToCommitText(res) ==
    LET output_text == LowerText(res.stdout \o res.stderr)
    IN Has(output_text, "nothing to commit") \/ Has(output_text, "nothing added to commit")

\* what a command that was run came to: the exception, or the return code
\* with what the command printed
Outcome(res) ==
    IF res.raised THEN "raised"
    ELSE IF res.returncode = 0
    THEN (IF res.stdout # <<>> THEN "returned 0, output" ELSE "returned 0, no output")
    ELSE IF NothingToCommitText(res) THEN "returned non-zero, nothing to commit"
    ELSE "returned non-zero"

\* env: [git_dir, branch, status, remote], the .git test and the three commands' results
check_repository_health(env) ==
    LET detached == IF env.branch.returncode = 0 /\ env.branch.stdout = <<>>
                    THEN <<"Repository is in detached HEAD state">> ELSE <<>>
        dirty == IF env.status.returncode = 0 /\ env.status.stdout # <<>>
                 THEN <<"Repository has uncommitted changes">> ELSE <<>>
        failed(res) == <<"Health check failed:">> \o ExcText(res)
    IN IF ~env.git_dir
       THEN [healthy |-> FALSE, issues |-> <<"Not a git repository">>, warnings |-> <<>>]
       ELSE IF env.branch.raised
       THEN [healthy |-> FALSE, issues |-> failed(env.branch), warnings |-> <<>>]
       ELSE IF env.status.raised
       THEN [healthy |-> FALSE, issues |-> failed(env.status), warnings |-> detached]
       ELSE IF env.remote.raised
       THEN [healthy |-> FALSE, issues |-> failed(env.remote), warnings |-> detached \o dirty]
       ELSE IF env.remote.returncode # 0 \/ env.remote.stdout = <<>>
       THEN [healthy |-> FALSE, issues |-> <<"No remote repository configured">>,
             warnings |-> detached \o dirty]
       ELSE [healthy |-> TRUE, issues |-> <<>>, warnings |-> detached \o dirty]

\* the git commands check_repository_health ran, in order
HealthCommands(env) ==
    LET branch == <<"git branch --show-current", Outcome(env.branch)>>
        status == <<"git status --porcelain", Outcome(env.status)>>
        remote == <<"git remote -v", Outcome(env.remote)>>
    IN IF ~env.git_dir THEN <<>>
       ELSE IF env.branch.raised THEN branch
       ELSE IF env.status.raised THEN branch \o status
       ELSE branch \o status \o remote

\* the three kinds of porcelain line check_uncommitted_changes tells apart
IsKind(l, kind) ==
    LET isUntracked == l.x = "?" /\ l.y = "?"
    IN CASE kind = "untracked" -> isUntracked
         [] kind = "staged" -> ~isUntracked /\ l.x \notin {" ", "?"}
         [] kind = "modified" -> ~isUntracked /\ l.y \notin {" ", "?"}

RECURSIVE SelectNames(_, _)
\* the file names of the lines of a kind, in order
SelectNames(lines, kind) ==
    IF lines = <<>> THEN <<>>
    ELSE (IF IsKind(Head(lines), kind) THEN <<Head(lines).name>> ELSE <<>>)
         \o SelectNames(Tail(lines), kind)

RECURSIVE Files(_)
\* status_info['files']: an untracked name is appended, any other only when new
Files(lines) ==
    IF lines = <<>> THEN <<>>
    ELSE LET prev == Files(SubSeq(lines, 1, Len(lines) - 1))
             l == lines[Len(lines)]
         IN IF IsKind(l, "untracked") \/ ~(\E i \in 1..Len(prev) : prev[i] = l.name)
            THEN Append(prev, l.name) ELSE prev

\* mutant: the working tree is always reported clean
check_uncommitted_changes_clean(res) ==
    [has_changes |-> FALSE, files |-> <<>>,
     staged |-> <<>>, untracked |-> <<>>, modified |-> <<>>]

\* res: the result of git status --porcelain; a porcelain line is [x, y, name]
check_uncommitted_changes(res) ==
    IF res.raised
    THEN [has_changes |-> TRUE, files |-> <<"Error checking status:">> \o ExcText(res),
          staged |-> <<>>, untracked |-> <<>>, modified |-> <<>>]
    ELSE IF res.returncode = 0 /\ res.stdout # <<>>
    THEN [has_changes |-> TRUE, files |-> Files(res.stdout),
          staged |-> SelectNames(res.stdout, "staged"),
          untracked |-> SelectNames(res.stdout, "untracked"),
          modified |-> SelectNames(res.stdout, "modified")]
    ELSE [has_changes |-> FALSE, files |-> <<>>,
          staged |-> <<>>, untracked |-> <<>>, modified |-> <<>>]

\* xs[:n]
FirstN(xs, n) == SubSeq(xs, 1, Min(n, Len(xs)))

\* "\n  Error: ..." and "\n  Output: ..." of an error message
ErrorAndOutput(res) ==
    (IF res.stderr # <<>> THEN <<"Error:">> \o res.stderr ELSE <<>>)
    \o (IF res.stdout # <<>> THEN <<"Output:">> \o res.stdout ELSE <<>>)

\* status, pull: the results of git status --porcelain and of git pull.
\* Gives the message, the git commands run and, when a git command's return
\* code made the operation fail, that command's stderr.
perform_pull_operation(repo_display, status, pull) ==
    LET status_info == check_uncommitted_changes(status)
        files_display ==
            FirstN(status_info.files, 5)
            \o (IF Len(status_info.files) > 5 THEN <<"(and more)">> ELSE <<>>)
    IN IF status_info.has_changes
       THEN [msg |-> <<WarnMark, repo_display, "SKIPPED pull - uncommitted changes detected",
                       "Uncommitted files:">> \o files_display
                     \o <<"Commit or stash changes before pulling">>,
             cmds |-> <<"git status --porcelain", Outcome(status)>>,
             git_failed |-> FALSE, git_stderr |-> <<>>]
       ELSE IF pull.raised
       THEN [msg |-> <<ErrMark, repo_display, "Pull operation failed -">> \o ExcText(pull),
             cmds |-> <<"git status --porcelain", Outcome(status), "git pull", Outcome(pull)>>,
             git_failed |-> FALSE, git_stderr |-> <<>>]
       ELSE IF pull.returncode = 0
       THEN [msg |-> <<OkMark, repo_display, "pull successful">>
                     \o (IF pull.stdout = <<>> THEN <<>>
                         ELSE IF ~(Has(LowerText(pull.stdout), "already up to date")
                                   \/ Has(LowerText(pull.stdout), "up-to-date"))
                         THEN <<"Output:">> \o pull.stdout
                         ELSE <<"Repository already up to date">>),
             cmds |-> <<"git status --porcelain", Outcome(status), "git pull", Outcome(pull)>>,
             git_failed |-> FALSE, git_stderr |-> <<>>]
       ELSE [msg |-> <<ErrMark, repo_display, "pull failed">>
                     \o (IF pull.stderr # <<>> THEN <<"Error:">> \o pull.stderr ELSE <<>>),
             cmds |-> <<"git status --porcelain", Outcome(status), "git pull", Outcome(pull)>>,
             git_failed |-> TRUE, git_stderr |-> pull.stderr]

\* mutant: a commit that failed for any reason is taken as nothing to commit
NothingToCommit_always(commit) == TRUE

\* the test on the output of a commit that returned non-zero
NothingToCommit(commit) == NothingToCommitText(commit)

\* status, add, commit, push: the results of the four git commands
perform_push_operation(repo_display, status, add, commit, push) ==
    LET status_info == check_uncommitted_changes(status)
        names(label, xs) ==
            IF xs = <<>> THEN <<>>
            ELSE <<label>> \o FirstN(xs, 3) \o (IF Len(xs) > 3 THEN <<"...">> ELSE <<>>)
        ops0 == <<"Checking status of", repo_display>>
        ops1 == ops0 \o <<"Found changes in", repo_display>>
                \o names("Untracked:", status_info.untracked)
                \o names("Modified:", status_info.modified)
                \o names("Staged:", status_info.staged)
                \o <<"Running: git add .">>
        ops2 == ops1 \o <<"Successfully added all changes",
                          "Running: git commit -m 'Auto-commit before push'">>
        ops3 == ops2 \o <<"Commit return code:">>
                \o (IF commit.stdout # <<>> THEN <<"Commit stdout:">> \o commit.stdout ELSE <<>>)
                \o (IF commit.stderr # <<>> THEN <<"Commit stderr:">> \o commit.stderr ELSE <<>>)
        ops4 == IF ~status_info.has_changes
                THEN ops0 \o <<"No uncommitted changes found in", repo_display>>
                ELSE IF commit.returncode # 0
                THEN ops3 \o <<"Nothing new to commit (working tree clean)">>
                ELSE ops3 \o <<"Successfully committed changes">>
        ops5 == ops4 \o <<"Running: git push">>
        ops6 == ops5 \o <<"Push return code:">>
                \o (IF push.stdout # <<>> THEN <<"Push stdout:">> \o push.stdout ELSE <<>>)
                \o (IF push.stderr # <<>> THEN <<"Push stderr:">> \o push.stderr ELSE <<>>)
        ops7 == ops6 \o <<"Successfully pushed to remote">>
                \o (IF push.stdout # <<>>
                       /\ ~(Has(LowerText(push.stdout), "up-to-date")
                            \/ Has(LowerText(push.stdout), "up to date"))
                    THEN <<"Push details:">> \o push.stdout ELSE <<>>)
        ran_status == <<"git status --porcelain", Outcome(status)>>
        ran_add == ran_status \o <<"git add .", Outcome(add)>>
        ran_commit == ran_add \o <<"git commit", Outcome(commit)>>
        before_push == IF status_info.has_changes THEN ran_commit ELSE ran_status
        ran_push == before_push \o <<"git push", Outcome(push)>>
        raised(res, ops, cmds) ==
            [msg |-> <<ErrMark, repo_display, "Push operation failed -">> \o ExcText(res) \o ops,
             cmds |-> cmds, git_failed |-> FALSE, git_stderr |-> <<>>]
        failed(what, res, ops, cmds) ==
            [msg |-> <<ErrMark, repo_display, what>> \o ErrorAndOutput(res) \o ops,
             cmds |-> cmds, git_failed |-> TRUE, git_stderr |-> res.stderr]
    IN IF status_info.has_changes /\ add.raised
       THEN raised(add, ops1, ran_add)
       ELSE IF status_info.has_changes /\ add.returncode # 0
       THEN failed("git add failed", add, ops1, ran_add)
       ELSE IF status_info.has_changes /\ commit.raised
       THEN raised(commit, ops2, before_push)
       ELSE IF status_info.has_changes /\ commit.returncode # 0 /\ ~NothingToCommit(commit)
       THEN failed("git commit failed", commit, ops3, before_push)
       ELSE IF push.raised
       THEN raised(push, ops5, ran_push)
       ELSE IF push.returncode = 0
       THEN [msg |-> <<OkMark, repo_display, "push completed successfully">> \o ops7,
             cmds |-> ran_push,
             git_failed |-> FALSE, git_stderr |-> <<>>]
       ELSE failed("git push failed", push, ops6, ran_push)

(***************************************************************************)
(* githubsync.py: what git and the file system may answer                  *)
(***************************************************************************)
BranchResults ==
    { Completed(0, <<"main">>, <<>>),
      TimeoutExpired("Command '['git', 'branch', '--show-current']' timed out after 10 seconds") }
StatusResults ==
    { Completed(0, <<>>, <<>>),
      Completed(0, <<[x |-> "?", y |-> "?", name |-> "notes.txt"]>>, <<>>),
      Completed(128, <<>>, <<"fatal: Unable to create index.lock">>),
      TimeoutExpired("Command '['git', 'status', '--porcelain']' timed out after 10 seconds") }
RemoteResults ==
    { Completed(0, <<"origin git@github.com:course/labs.git (fetch)">>, <<>>),
      Completed(0, <<>>, <<>>),
      TimeoutExpired("Command '['git', 'remote', '-v']' timed out after 10 seconds") }
\* a command that was not run has no result
NotRun == Completed(0, <<>>, <<"(not run)">>)

\* the .git test and the results of the commands the health check gets to run
HealthEnvs ==
    { e \in [git_dir : BOOLEAN, branch : BranchResults \cup {NotRun},
             status : StatusResults \cup {NotRun}, remote : RemoteResults \cup {NotRun}] :
        /\ (e.branch = NotRun) = ~e.git_dir
        /\ (e.status = NotRun) = (~e.git_dir \/ e.branch.raised)
        /\ (e.remote = NotRun) = (e.status = NotRun \/ e.status.raised) }

\* stderr of a pull or push that git refuses
FailStderrs ==
    { <<"error: failed to push some refs">>,
      <<"Could not resolve host: github.com">>,
      <<"! [rejected] main -> main (non-fast-forward)", "error: failed to push some refs">> }
AddResults ==
    { Completed(0, <<>>, <<>>),
      Completed(128, <<>>, <<"fatal: Unable to create index.lock">>),
      TimeoutExpired("Command '['git', 'add', '.']' timed out after 30 seconds") }
CommitResults ==
    { Completed(0, <<"[main 1a2b3c4] Auto-commit before push">>, <<>>),
      Completed(1, <<"nothing to commit, working tree clean">>, <<>>),
      Completed(128, <<>>, <<"fatal: unable to auto-detect email address">>),
      TimeoutExpired("Command '['git', 'commit', '-m', ...]' timed out after 30 seconds") }
PushResults ==
    { Completed(0, <<"Everything up-to-date">>, <<>>),
      Completed(0, <<>>, <<"To github.com:course/labs.git">>),
      TimeoutExpired("Command '['git', 'push']' timed out after 30 seconds") }
    \cup { Completed(1, <<>>, e) : e \in FailStderrs }
PullResults ==
    { Completed(0, <<"Already up to date.">>, <<>>),
      Completed(0, <<"Updating 3f2a1c0..9b8d7e6">>, <<>>),
      TimeoutExpired("Command '['git', 'pull']' timed out after 30 seconds") }
    \cup { Completed(1, <<>>, e) : e \in FailStderrs }
\* the results of the commands a pull gets to run
PullEnvs ==
    { e \in [status : StatusResults, pull : PullResults \cup {NotRun}] :
        (e.pull = NotRun) = check_uncommitted_changes(e.status).has_changes }

\* the results of the commands a push gets to run
PushEnvs ==
    { e \in [status : StatusResults, add : AddResults \cup {NotRun},
             commit : CommitResults \cup {NotRun}, push : PushResults \cup {NotRun}] :
        LET has_changes == check_uncommitted_changes(e.status).has_changes
            commit_stops ==
                \/ e.commit.raised
                \/ e.commit.returncode # 0 /\ ~NothingToCommit(e.commit)
        IN /\ (e.add = NotRun) = ~has_changes
           /\ (e.commit = NotRun) = (~has_changes \/ e.add.raised \/ e.add.returncode # 0)
           /\ (e.push = NotRun) = (has_changes /\ (e.commit = NotRun \/ commit_stops)) }

OperationEnvs(operation) ==
    IF operation = "pull"
    THEN { [status |-> e.status, pull |-> e.pull, add |-> NotRun, commit |-> NotRun,
            push |-> NotRun] : e \in PullEnvs }
    ELSE { [status |-> e.status, pull |-> NotRun, add |-> e.add, commit |-> e.commit,
            push |-> e.push] : e \in PushEnvs }

(***************************************************************************)
(* githubsync.py: GitWorker and GitRepoManager                             *)
(***************************************************************************)
RepoIds == 1..NumRepos
WorkerIds == 1..MaxStarts
None == 0

\* repo_display: the last path components of a repository
RepoDisplay(r) == CASE r = 1 -> "labs" [] r = 2 -> "network-labs" [] OTHER -> "hw"

RECURSIVE SortedSeq(_)
\* the elements of a set of numbers in increasing order
SortedSeq(S) ==
    IF S = {} THEN <<>>
    ELSE LET m == CHOOSE x \in S : \A y \in S : x <= y
         IN <<m>> \o SortedSeq(S \ {m})

\* what a scan can find: the repositories of the tree, sorted by path
ScanResults == { SortedSeq(S) : S \in SUBSET RepoIds }

\* the lists a GitWorker is constructed with: the sorted list of the scan, or
\* the part of it that a retry takes, in the same order; not empty
RepoLists ==
    { s \in UNION { [1..k -> RepoIds] : k \in 1..NumRepos } :
        \A a, b \in 1..Len(s) : a < b => s[a] < s[b] }

NoHealth == [healthy |-> FALSE, issues |-> <<>>, warnings |-> <<>>]
Unborn ==
    [state |-> "unborn", repositories |-> <<>>, operation |-> "none",
     i |-> 0, pc |-> "none", health |-> NoHealth]
NewWorker(repos, op) ==
    [state |-> "running", repositories |-> repos, operation |-> op,
     i |-> 1, pc |-> "begin", health |-> NoHealth]

NoAnalysis == [type |-> "none", fix_available |-> FALSE, commands |-> <<>>]
\* a queued signal, with what the slot it is connected to makes use of: the
\* error_info of an error_output, the sender of a finished
Signal(w, kind, repo, analysis) ==
    [w |-> IF kind = "finished" THEN w ELSE None, kind |-> kind,
     repo_path |-> IF kind = "error_output" THEN repo ELSE None, analysis |-> analysis,
     \* for the log of the retries: the operation of the worker it comes from
     operation |-> IF kind = "error_output" THEN threads[w].operation ELSE "none"]
Done ==
    [state |-> "done", repositories |-> <<>>, operation |-> "none",
     i |-> 0, pc |-> "none", health |-> NoHealth]
\* the GUI thread has not fallen further behind than the model follows
QueueHasRoom == Len(gui_queue) < MaxQueue
NoResult ==
    [kind |-> "none", msg |-> <<>>, analysis |-> NoAnalysis,
     git_failed |-> FALSE, git_stderr |-> <<>>]
NoFailure == [seen |-> FALSE, stderr |-> <<>>, analysis |-> NoAnalysis]
NoRetry ==
    [kind |-> "none", failed_operation |-> "none", repo_path |-> None, started |-> Unborn,
     errored |-> <<>>, batch_finished |-> FALSE]

\* the worker has been started and its finished signal has not been handled
Active(w) == threads[w].state \in {"running", "returned"}

Started == { w \in WorkerIds : threads[w].state # "unborn" }

probeVars == <<probe, trace, result, emitted, first_failure>>
\* a button is pressed
Click == clicks < MaxClicks /\ clicks' = clicks + 1
buttonVars == <<pull_button, push_button, refresh_button>>

\* log x for the observed worker only
Observe(w, new, old) == IF w = probe THEN new ELSE old

\* mutant: the loop steps over the repository after the one it handled
AfterRepo_skip(t) ==
    [t EXCEPT !.i = t.i + 2, !.health = NoHealth,
              !.pc = IF t.i + 2 > Len(t.repositories) THEN "finish" ELSE "begin"]

\* mutant: the loop ends one repository early
AfterRepo_early(t) ==
    [t EXCEPT !.i = t.i + 1, !.health = NoHealth,
              !.pc = IF t.i + 1 >= Len(t.repositories) THEN "finish" ELSE "begin"]

\* for i, repo_path in enumerate(self.repositories, 1): the loop goes on or ends
AfterRepo(t) ==
    [t EXCEPT !.i = t.i + 1, !.health = NoHealth,
              !.pc = IF t.i + 1 > Len(t.repositories) THEN "finish" ELSE "begin"]

\* run: self.progress.emit(progress_msg)
BeginRepo(w) ==
    LET t == threads[w] IN
    /\ t.state = "running" /\ t.pc = "begin"
    /\ QueueHasRoom
    /\ threads' = [threads EXCEPT ![w].pc = "health"]
    /\ gui_queue' = Append(gui_queue, Signal(w, "progress", t.repositories[t.i], NoAnalysis))
    /\ trace' = Observe(w, <<"progress">>, trace)
    /\ result' = Observe(w, NoResult, result)
    /\ emitted' = Observe(w, Append(emitted, <<"progress", t.i>>), emitted)
    /\ UNCHANGED errored
    /\ UNCHANGED <<repositories, worker, buttonVars, error_widgets, clicks, probe, first_failure,
                   retry_log>>

\* what the health check can come to, over all that git may answer
HealthOutcomes ==
    { [health_info |-> check_repository_health(env), cmds |-> HealthCommands(env)] :
        env \in HealthEnvs }

HealthFailed ==
    [type |-> "health_check_failed", fix_available |-> FALSE, commands |-> <<>>]

\* mutant: the result of the health check is not looked at
Unhealthy_ignored(health_info) == FALSE

\* if not health_info['healthy']
Unhealthy(health_info) == ~health_info.healthy

\* run: the health check and, when it fails, the error_output and continue
HealthCheck(w) ==
    LET t == threads[w]
        repo_path == t.repositories[t.i]
    IN
    /\ t.state = "running" /\ t.pc = "health"
    /\ QueueHasRoom
    /\ \E checked \in HealthOutcomes :
         LET health_info == checked.health_info
             error_msg == <<ErrMark, RepoDisplay(repo_path), "Repository health check failed",
                            "Issues:">> \o health_info.issues
             health_outcome == IF health_info.healthy THEN "healthy" ELSE "unhealthy"
         IN IF Unhealthy(health_info)
            THEN /\ threads' = [threads EXCEPT ![w] = AfterRepo(t)]
                 /\ gui_queue' = Append(gui_queue,
                                        Signal(w, "error_output", repo_path, HealthFailed))
                 /\ trace' = Observe(w, trace \o checked.cmds
                                        \o <<health_outcome, "error_output">>, trace)
                 /\ result' = Observe(w, [kind |-> "error_output", msg |-> error_msg,
                                          analysis |-> HealthFailed,
                                          git_failed |-> FALSE, git_stderr |-> <<>>], result)
                 /\ emitted' = Observe(w, Append(emitted, <<"error_output", t.i>>), emitted)
                 /\ errored' = IF w = worker THEN Append(errored, repo_path) ELSE errored
            ELSE /\ threads' = [threads EXCEPT ![w].pc = "operate", ![w].health = health_info]
                 /\ trace' = Observe(w, trace \o checked.cmds \o <<health_outcome>>, trace)
                 /\ UNCHANGED <<gui_queue, result, emitted, errored>>
    /\ UNCHANGED <<repositories, worker, buttonVars, error_widgets, clicks, probe, first_failure,
                   retry_log>>

\* run: the dispatch on self.operation
Dispatch(operation, repo_display, env) ==
    IF operation = "pull"
    THEN perform_pull_operation(repo_display, env.status, env.pull)
    ELSE perform_push_operation(repo_display, env.status, env.add, env.commit, env.push)

\* run: a message that starts with neither mark is an error and is analysed
Classified(done) ==
    IF Head(done.msg) \in {OkMark, WarnMark}
    THEN [done |-> done, kind |-> "success_output", analysis |-> NoAnalysis]
    ELSE [done |-> done, kind |-> "error_output", analysis |-> analyze_error(done.msg)]

\* what the operation on a repository can come to, over all that git may
\* answer: the message of the operation and the signal the run makes of it
OperationOutcomes ==
    [operation \in {"pull", "push"}, r \in RepoIds |->
        { Classified(Dispatch(operation, RepoDisplay(r), env)) :
            env \in OperationEnvs(operation) }]

\* run: the operation, the classification of its message and the result signal
Operate(w) ==
    LET t == threads[w]
        repo_path == t.repositories[t.i]
    IN
    /\ t.state = "running" /\ t.pc = "operate"
    /\ QueueHasRoom
    /\ \E outcome \in OperationOutcomes[t.operation, repo_path] :
         LET done == outcome.done
             result_msg ==
                 IF Head(done.msg) = OkMark /\ t.health.warnings # <<>>
                 THEN done.msg \o <<"Warnings:">> \o t.health.warnings
                 ELSE done.msg
             called == IF outcome.kind = "error_output" THEN <<"analyze_error">> ELSE <<>>
         IN /\ gui_queue' = Append(gui_queue,
                                   Signal(w, outcome.kind, repo_path, outcome.analysis))
            /\ trace' = Observe(w, trace \o done.cmds \o called \o <<outcome.kind>>, trace)
            /\ result' = Observe(w, [kind |-> outcome.kind, msg |-> result_msg,
                                     analysis |-> outcome.analysis,
                                     git_failed |-> done.git_failed,
                                     git_stderr |-> done.git_stderr], result)
            /\ emitted' = Observe(w, Append(emitted, <<outcome.kind, t.i>>), emitted)
            /\ errored' = IF w = worker /\ outcome.kind = "error_output"
                          THEN Append(errored, repo_path) ELSE errored
            /\ first_failure' =
                   IF w = probe /\ done.git_failed /\ ~first_failure.seen
                   THEN [seen |-> TRUE, stderr |-> done.git_stderr,
                         analysis |-> outcome.analysis]
                   ELSE first_failure
    /\ threads' = [threads EXCEPT ![w] = AfterRepo(t)]
    /\ UNCHANGED <<repositories, worker, buttonVars, error_widgets, clicks, probe, retry_log>>

\* run: self.finished.emit() after the loop
Finish(w) ==
    LET t == threads[w] IN
    /\ t.state = "running" /\ t.pc = "finish"
    /\ QueueHasRoom
    /\ threads' = [threads EXCEPT ![w].state = "returned", ![w].pc = "done"]
    /\ gui_queue' = Append(gui_queue, Signal(w, "finished", None, NoAnalysis))
    /\ emitted' = Observe(w, Append(emitted, <<"finished", t.i>>), emitted)
    /\ UNCHANGED <<repositories, worker, buttonVars, error_widgets, clicks, probe, trace,
                   result, first_failure, errored, retry_log>>

\* show_error: the message box, and the three buttons enabled again
show_error ==
    /\ pull_button' = TRUE /\ push_button' = TRUE /\ refresh_button' = TRUE

\* GitWorker(repos, operation), the four connects and start()
StartWorker(repos, operation) ==
    /\ Started # WorkerIds
    /\ LET w == CHOOSE x \in WorkerIds \ Started : \A y \in WorkerIds \ Started : x <= y
       IN /\ threads' = [threads EXCEPT ![w] = NewWorker(repos, operation)]
          /\ worker' = w

\* the three setEnabled(False) before a worker is started
DisableButtons ==
    /\ pull_button' = FALSE /\ push_button' = FALSE /\ refresh_button' = FALSE

execute_git_operation(operation) ==
    IF repositories = <<>>
    THEN /\ show_error
         /\ UNCHANGED <<repositories, worker, error_widgets, threads, gui_queue, probeVars, errored, retry_log>>
    ELSE /\ DisableButtons
         /\ error_widgets' = <<>>
         /\ StartWorker(repositories, operation)
         /\ errored' = <<>>
         /\ UNCHANGED <<repositories, gui_queue, probeVars, retry_log>>

\* the Pull All and Push All buttons
pull_all == pull_button /\ Click /\ execute_git_operation("pull")
push_all == push_button /\ Click /\ execute_git_operation("push")

\* scan_repositories: an early return, a list found, or an exception on the way
scan_repositories ==
    \/ UNCHANGED <<repositories, buttonVars>>
    \/ \E found \in ScanResults :
         /\ repositories' = found
         /\ pull_button' = (found # <<>>)
         /\ push_button' = (found # <<>>)
         /\ UNCHANGED refresh_button
    \/ /\ repositories' \in {repositories, <<>>}
       /\ show_error

\* the Refresh Repository List button
refresh ==
    /\ refresh_button
    /\ Click
    /\ scan_repositories
    /\ UNCHANGED <<worker, error_widgets, threads, gui_queue, probeVars, errored, retry_log>>

\* browse_directory with a directory chosen: the configuration is written and
\* the tree scanned, or the write fails
browse_directory ==
    /\ Click
    /\ \/ scan_repositories
       \/ show_error /\ UNCHANGED repositories
    /\ UNCHANGED <<worker, error_widgets, threads, gui_queue, probeVars, errored, retry_log>>

\* the Health Check All button
run_health_check ==
    /\ Click
    /\ IF repositories = <<>> THEN show_error ELSE UNCHANGED buttonVars
    /\ UNCHANGED <<repositories, worker, error_widgets, threads, gui_queue, probeVars, errored, retry_log>>

\* the Clear Error Log button
clear_error_area ==
    /\ Click
    /\ error_widgets' = <<>>
    /\ UNCHANGED <<repositories, worker, buttonVars, threads, gui_queue, probeVars, errored, retry_log>>

\* the slots the worker's signals are connected to run in the GUI thread, in
\* the order the signals were emitted
Deliver(kind) ==
    /\ gui_queue # <<>>
    /\ Head(gui_queue).kind = kind
    /\ gui_queue' = Tail(gui_queue)

update_progress ==
    /\ Deliver("progress")
    /\ UNCHANGED <<repositories, worker, buttonVars, error_widgets, clicks, threads, probeVars, errored, retry_log>>

add_success_message ==
    /\ Deliver("success_output")
    /\ UNCHANGED <<repositories, worker, buttonVars, error_widgets, clicks, threads, probeVars, errored, retry_log>>

\* an ErrorFixWidget and the buttons it shows
ErrorFixWidget(info) ==
    [repo_path |-> info.repo_path, analysis |-> info.analysis, operation |-> info.operation,
     auto_fix_btn |-> info.analysis.fix_available,
     force_fix_btn |-> info.analysis.fix_available /\ info.analysis.type = "non_fast_forward"]

add_error_with_fix ==
    /\ Deliver("error_output")
    /\ LET info == Head(gui_queue)
       IN error_widgets' =
            IF info.analysis.fix_available \/ info.analysis.type # "unknown"
            THEN Append(error_widgets, ErrorFixWidget(info))
            ELSE error_widgets
    /\ UNCHANGED <<repositories, worker, buttonVars, clicks, threads, probeVars, errored, retry_log>>

operation_finished ==
    /\ Deliver("finished")
    /\ pull_button' = TRUE /\ push_button' = TRUE /\ refresh_button' = TRUE
    /\ worker' = None
    /\ threads' = [threads EXCEPT ![Head(gui_queue).w] = Done]
    /\ UNCHANGED <<repositories, error_widgets, clicks, probeVars, errored, retry_log>>

\* repo_path in self.repositories
InList(repo_path, list) == \E k \in 1..Len(list) : list[k] = repo_path

\* retry_single_repository, reached from a widget's retry_requested signal
retry_single_repository(repo_path) ==
    /\ InList(repo_path, repositories)
    /\ DisableButtons
    /\ StartWorker(<<repo_path>>, "push")
    /\ errored' = <<>>
    /\ UNCHANGED <<repositories, gui_queue, probeVars>>

\* the log of a retry made from a widget: the widget, and the worker started
Retried(widget) ==
    retry_log' = [kind |-> "single", failed_operation |-> widget.operation,
                  repo_path |-> widget.repo_path, started |-> threads'[worker'],
                  errored |-> <<>>, batch_finished |-> FALSE]

\* the Retry Operation / Retry After Manual Fix button of widget k
retry_operation(k) ==
    /\ k \in 1..Len(error_widgets)
    /\ Click
    /\ retry_single_repository(error_widgets[k].repo_path)
    /\ Retried(error_widgets[k])
    /\ UNCHANGED error_widgets

\* the Auto-Fix button of widget k, confirmed, with the fix succeeding: the
\* button is disabled and the operation retried
perform_auto_fix(k) ==
    /\ k \in 1..Len(error_widgets)
    /\ error_widgets[k].auto_fix_btn
    /\ Click
    /\ error_widgets' = [error_widgets EXCEPT ![k].auto_fix_btn = FALSE]
    /\ IF InList(error_widgets[k].repo_path, repositories)
       THEN retry_single_repository(error_widgets[k].repo_path) /\ Retried(error_widgets[k])
       ELSE UNCHANGED <<repositories, worker, buttonVars, threads, gui_queue, probeVars, errored, retry_log>>

\* the Force Fix button of widget k, confirmed, with the fix succeeding
perform_force_fix(k) ==
    /\ k \in 1..Len(error_widgets)
    /\ error_widgets[k].force_fix_btn
    /\ Click
    /\ error_widgets' = [error_widgets EXCEPT ![k].force_fix_btn = FALSE]
    /\ IF InList(error_widgets[k].repo_path, repositories)
       THEN retry_single_repository(error_widgets[k].repo_path) /\ Retried(error_widgets[k])
       ELSE UNCHANGED <<repositories, worker, buttonVars, threads, gui_queue, probeVars, errored, retry_log>>

RECURSIVE FailedRepos(_)
\* failed_repos: the widgets' repositories, each once, in first-occurrence order
FailedRepos(widgets) ==
    IF widgets = <<>> THEN <<>>
    ELSE LET prev == FailedRepos(SubSeq(widgets, 1, Len(widgets) - 1))
             repo_path == widgets[Len(widgets)].repo_path
         IN IF InList(repo_path, prev) THEN prev ELSE Append(prev, repo_path)

\* the Retry All Failed button, confirmed
retry_failed_repositories ==
    /\ error_widgets # <<>>
    /\ Click
    /\ error_widgets' = <<>>
    /\ DisableButtons
    /\ StartWorker(FailedRepos(error_widgets), "push")
    /\ errored' = <<>>
    /\ retry_log' = [kind |-> "all", failed_operation |-> "none", repo_path |-> None,
                     started |-> threads'[worker'], errored |-> errored,
                     batch_finished |-> (worker = None /\ \A w \in WorkerIds : ~Active(w))]
    /\ UNCHANGED <<repositories, gui_queue, probeVars>>

(***************************************************************************)
(* githubsync.py: analyze_error on its own                                 *)
(***************************************************************************)
AnalyzePhrases ==
    { "! [rejected] main -> main (non-fast-forward)",
      "Updates were rejected because the tip of your current branch is behind",
      "but no such ref was fetched.",
      "refs/heads/master",
      "Your branch and 'origin/main' have diverged",
      "fatal: Authentication failed",
      "Permission denied (publickey).",
      "fatal: Could not read from remote repository.",
      "error: cannot pull with rebase: You have uncommitted changes.",
      "nothing to commit, working tree clean",
      "Could not resolve host: github.com",
      "Network is unreachable",
      "Connection refused",
      "Operation timeout",
      "error: failed to push some refs",
      "network-labs" }
AnalyzeMessages == UNION { [1..k -> AnalyzePhrases] : k \in 0..MaxMsgLen }

AnalyzeIdle == error_message = <<>> /\ error_info = NoAnalysis
AnalyzeInit == error_message \in AnalyzeMessages /\ error_info = NoAnalysis

Analyze ==
    /\ error_info = NoAnalysis
    /\ error_info' = analyze_error(error_message)
    /\ UNCHANGED error_message

(***************************************************************************)
(* Specifications                                                          *)
(***************************************************************************)
vars == <<csVars, rpsVars, marpVars, analyzeVars, gitVars>>

\* GitRepoManager.__init__: the buttons as created, then the first scan
GitInit ==
    /\ worker = None
    /\ error_widgets = <<>>
    /\ clicks = 0
    /\ threads = [w \in WorkerIds |-> Unborn]
    /\ gui_queue = <<>>
    /\ refresh_button = TRUE
    /\ \/ repositories \in ScanResults /\ pull_button = (repositories # <<>>)
          /\ push_button = (repositories # <<>>)
       \/ repositories = <<>> /\ pull_button = TRUE /\ push_button = TRUE
    /\ probe = None /\ trace = <<>> /\ result = NoResult /\ emitted = <<>> /\ first_failure = NoFailure
    /\ errored = <<>> /\ retry_log = NoRetry

GitIdle ==
    /\ worker = None /\ error_widgets = <<>> /\ clicks = 0
    /\ threads = [w \in WorkerIds |-> Unborn]
    /\ gui_queue = <<>> /\ refresh_button = TRUE /\ pull_button = TRUE /\ push_button = TRUE
    /\ repositories = <<>>
    /\ probe = None /\ trace = <<>> /\ result = NoResult /\ emitted = <<>> /\ first_failure = NoFailure
    /\ errored = <<>> /\ retry_log = NoRetry

\* a worker just constructed and started by the manager, observed
WorkerInit ==
    /\ \E list \in RepoLists, operation \in {"pull", "push"} :
         /\ threads = [w \in WorkerIds |-> IF w = 1 THEN NewWorker(list, operation) ELSE Unborn]
         /\ repositories = SortedSeq({list[k] : k \in 1..Len(list)})
    /\ worker = 1
    /\ error_widgets = <<>>
    /\ clicks = 1
    /\ gui_queue = <<>>
    /\ pull_button = FALSE /\ push_button = FALSE /\ refresh_button = FALSE
    /\ probe = 1 /\ trace = <<>> /\ result = NoResult /\ emitted = <<>> /\ first_failure = NoFailure
    /\ errored = <<>> /\ retry_log = NoRetry

\* the other tools are separate programs: a step of this one leaves them alone
GitOnly == UNCHANGED <<csVars, rpsVars, marpVars, analyzeVars>>

WorkerStep ==
    \/ \E w \in WorkerIds : BeginRepo(w) /\ GitOnly
    \/ \E w \in WorkerIds : HealthCheck(w) /\ GitOnly
    \/ \E w \in WorkerIds : Operate(w) /\ GitOnly
    \/ \E w \in WorkerIds : Finish(w) /\ GitOnly

\* the slots run by the signals of the workers
SlotStep ==
    \/ update_progress /\ GitOnly
    \/ add_success_message /\ GitOnly
    \/ add_error_with_fix /\ GitOnly
    \/ operation_finished /\ GitOnly

\* the buttons of the manager and of its error widgets
GuiStep ==
    \/ pull_all /\ GitOnly
    \/ push_all /\ GitOnly
    \/ refresh /\ GitOnly
    \/ browse_directory /\ GitOnly
    \/ run_health_check /\ GitOnly
    \/ clear_error_area /\ GitOnly
    \/ \E k \in 1..Len(error_widgets) : retry_operation(k) /\ GitOnly
    \/ \E k \in 1..Len(error_widgets) : perform_auto_fix(k) /\ GitOnly
    \/ \E k \in 1..Len(error_widgets) : perform_force_fix(k) /\ GitOnly
    \/ retry_failed_repositories /\ GitOnly

\* the git manager: the user, the GUI thread and the worker threads
Init == GitInit /\ CsIdle /\ RpsIdle /\ AnalyzeIdle /\ MarpIdle
Next == GuiStep \/ SlotStep \/ WorkerStep
Spec == Init /\ [][Next]_vars

\* one GitWorker.run
WorkerSpecInit == WorkerInit /\ CsIdle /\ RpsIdle /\ AnalyzeIdle /\ MarpIdle
WorkerNext == WorkerStep \/ SlotStep
SpecWorker == WorkerSpecInit /\ [][WorkerNext]_vars
\* a started thread keeps running, every git command ends or times out, and
\* the event loop of the GUI thread keeps delivering the queued signals
LiveWorker == SpecWorker /\ WF_vars(WorkerNext)

\* analyze_error
AnalyzeSpecInit == AnalyzeInit /\ CsIdle /\ RpsIdle /\ GitIdle /\ MarpIdle
AnalyzeNext == Analyze /\ UNCHANGED <<csVars, rpsVars, marpVars, gitVars>>
SpecAnalyze == AnalyzeSpecInit /\ [][AnalyzeNext]_vars

\* the column splitter
SplitInit == CsInit /\ RpsIdle /\ AnalyzeIdle /\ GitIdle /\ MarpIdle
SplitNext ==
    \/ read_and_split /\ UNCHANGED <<rpsVars, marpVars, analyzeVars, gitVars>>
    \/ copy_result /\ UNCHANGED <<rpsVars, marpVars, analyzeVars, gitVars>>
    \/ join_columns /\ UNCHANGED <<rpsVars, marpVars, analyzeVars, gitVars>>
SpecSplit == SplitInit /\ [][SplitNext]_vars

\* the Marp converters
MarpSpecInit == MarpInit /\ CsIdle /\ RpsIdle /\ AnalyzeIdle /\ GitIdle
MarpNext ==
    \/ MarpLoad /\ UNCHANGED <<csVars, rpsVars, analyzeVars, gitVars>>
    \/ init_ui /\ UNCHANGED <<csVars, rpsVars, analyzeVars, gitVars>>
    \/ on_percentage_changed /\ UNCHANGED <<csVars, rpsVars, analyzeVars, gitVars>>
    \/ convert_content /\ UNCHANGED <<csVars, rpsVars, analyzeVars, gitVars>>
    \/ closeEvent /\ UNCHANGED <<csVars, rpsVars, analyzeVars, gitVars>>
SpecMarp == MarpSpecInit /\ [][MarpNext]_vars

\* the leading-space remover
RemoveInit == RpsInit /\ CsIdle /\ AnalyzeIdle /\ GitIdle /\ MarpIdle
RemoveNext ==
    \/ RemoveSpaces /\ UNCHANGED <<csVars, marpVars, analyzeVars, gitVars>>
    \/ load_clipboard /\ UNCHANGED <<csVars, marpVars, analyzeVars, gitVars>>
    \/ process_text /\ UNCHANGED <<csVars, marpVars, analyzeVars, gitVars>>
    \/ copy_result_text /\ UNCHANGED <<csVars, marpVars, analyzeVars, gitVars>>
SpecRps == RemoveInit /\ [][RemoveNext]_vars

(***************************************************************************)
(* Claims                                                                  *)
(***************************************************************************)
\* the text a split/join round trip is expected to give back: line endings
\* normalised to \n, trailing blank lines removed
NormalisedCode == JoinWith(PopBlankTail(NormalisedLines(code)), <<"\n">>)

\* C1: with line numbers off, joining the split of a text into 1..4 columns
\* gives back the text (line endings normalised, trailing blank lines
\* removed), every line present, unchanged and in order.
C1_RoundTrip ==
    (cs_pc = "joined" /\ ~add_line_numbers) => joined_result = NormalisedCode

\* C2: remove_prepended_spaces is idempotent: applied to its own result it
\* changes nothing.
C2_Idempotent ==
    Len(processed) = 2 => processed[2] = processed[1]

\* a text whose leading spaces were removed by the first application, and a
\* second application made
C2_Witness ==
    /\ Len(processed) = 2
    /\ processed[1] # text
    /\ Len(SplitOn(text, "\n")) >= 2

\* C3: at most one GitWorker is running at any time, whatever buttons the
\* user presses: no worker is started while an earlier one is still running.
C3_OneWorker ==
    Cardinality({ w \in WorkerIds : threads[w].state = "running" }) <= 1

\* the signals that carry the result of a repository
ResultKinds == {"success_output", "error_output"}

\* the p-th signal of a run over n repositories: progress and result of each
\* repository in turn, then finished
SignalInPlace(e, p, n) ==
    IF p = 2 * n + 1 THEN e = <<"finished", n + 1>>
    ELSE IF p % 2 = 1 THEN e = <<"progress", (p + 1) \div 2>>
    ELSE e[1] \in ResultKinds /\ e[2] = p \div 2

\* C4: run takes the repositories in list order, each once, and emits for
\* each one progress signal followed by exactly one result signal; a failed
\* or unhealthy repository does not keep the later ones from being processed
\* (the observed worker was given the whole list of the manager).
C4_ListOrder ==
    LET n == Len(repositories) IN
    /\ Len(emitted) <= 2 * n + 1
    /\ \A p \in 1..Len(emitted) : SignalInPlace(emitted[p], p, n)
    /\ threads[probe].state # "running" => Len(emitted) = 2 * n + 1

\* a run over two repositories is over, the first one failed and the second
\* was processed all the same
C4_Witness ==
    /\ Len(emitted) = 5
    /\ emitted[2][1] = "error_output"
    /\ emitted[4][1] = "success_output"

\* x is an entry of the trace of the current repository
InTrace(x) == \E p \in 1..Len(trace) : trace[p] = x

\* the first place of x in a sequence, 0 when it is not in it
Place(seq, x) ==
    LET at == { p \in 1..Len(seq) : seq[p] = x }
    IN IF at = {} THEN 0 ELSE SetMin(at)

\* what the run of cmd recorded in seq came to
OutcomeIn(seq, cmd) ==
    IF Place(seq, cmd) = 0 THEN "not run" ELSE seq[Place(seq, cmd) + 1]

\* the trace up to the outcome of the health check, and after it
HealthPlace == Max(Place(trace, "healthy"), Place(trace, "unhealthy"))
HealthTrace ==
    IF HealthPlace = 0 THEN trace ELSE SubSeq(trace, 1, HealthPlace)
OperationTrace ==
    IF HealthPlace = 0 THEN <<>> ELSE SubSeq(trace, HealthPlace + 1, Len(trace))

\* the commands of the operations
OperationCommands == {"git pull", "git add .", "git commit", "git push"}

\* C5: for each repository the health check comes first: no pull, push, add
\* or commit is issued before it has found the repository healthy, none at
\* all when it found it unhealthy (the result is then an error_output of type
\* health_check_failed with fix_available false), and analyze_error is called
\* only after the operation gave back a failure message.
C5_HealthFirst ==
    /\ \A p \in 1..Len(trace) :
         trace[p] \in OperationCommands =>
            Place(trace, "healthy") # 0 /\ Place(trace, "healthy") < p
    /\ InTrace("unhealthy") =>
         /\ \A p \in 1..Len(trace) : trace[p] \notin OperationCommands
         /\ ~InTrace("analyze_error")
         /\ result.kind = "error_output"
         /\ result.analysis.type = "health_check_failed"
         /\ result.analysis.fix_available = FALSE
    /\ InTrace("analyze_error") =>
         /\ InTrace("healthy")
         /\ result.kind = "error_output"
         /\ Head(result.msg) = ErrMark
         /\ \A p \in 1..Len(trace) :
              trace[p] \in OperationCommands => p < Place(trace, "analyze_error")
    /\ result.kind = "success_output" => ~InTrace("analyze_error")

\* an unhealthy repository got its health_check_failed error
C5_Witness ==
    /\ InTrace("unhealthy")
    /\ result.kind = "error_output"
    /\ result.analysis.type = "health_check_failed"

\* C6: the analysis of a failed git operation is a function of git's stderr:
\* two first_failure with the same stderr have the same type and fix commands
\* (the first failure of the run and the failure of the current repository).
C6_StderrAlone ==
    (first_failure.seen /\ result.git_failed /\ result.git_stderr = first_failure.stderr)
        => result.analysis = first_failure.analysis

\* the types analyze_error tells apart, in the order of its rules
RuleOrder ==
    <<"non_fast_forward", "branch_mismatch", "diverged_branches", "auth_error",
      "uncommitted_changes", "network_error">>

\* k is in the message, whatever the case of its letters
HasIgnoringCase(m, k) == \E i \in 1..Len(m) : k \in SubstringsOf(Lower(m[i]))

\* the message matches the rule of a type
RuleMatches(type, m) ==
    CASE type = "non_fast_forward" ->
            \/ HasIgnoringCase(m, "non-fast-forward")
            \/ HasIgnoringCase(m, "tip of your current branch is behind")
      [] type = "branch_mismatch" ->
            HasIgnoringCase(m, "no such ref was fetched") /\ HasIgnoringCase(m, "master")
      [] type = "diverged_branches" -> HasIgnoringCase(m, "have diverged")
      [] type = "auth_error" ->
            \/ HasIgnoringCase(m, "authentication")
            \/ HasIgnoringCase(m, "permission denied")
            \/ HasIgnoringCase(m, "fatal: could not read")
      [] type = "uncommitted_changes" ->
            \/ HasIgnoringCase(m, "uncommitted changes")
            \/ HasIgnoringCase(m, "working tree clean")
      [] type = "network_error" ->
            \/ HasIgnoringCase(m, "network")
            \/ HasIgnoringCase(m, "timeout")
            \/ HasIgnoringCase(m, "connection")
            \/ HasIgnoringCase(m, "could not resolve")

\* the rules a message matches, by their place in the order
MatchingRules(m) == { j \in 1..Len(RuleOrder) : RuleMatches(RuleOrder[j], m) }

\* C7: analyze_error gives every message exactly one type of the fixed set:
\* the type of the first rule, in order, that matches without regard to
\* case, and unknown exactly when no rule matches.
C7_FirstRule ==
    error_info # NoAnalysis =>
        /\ error_info.type \in { RuleOrder[j] : j \in 1..Len(RuleOrder) } \cup {"unknown"}
        /\ error_info.type =
              IF MatchingRules(error_message) = {} THEN "unknown"
              ELSE RuleOrder[SetMin(MatchingRules(error_message))]

\* a message that matches the non-fast-forward rule and the network rule
C7_Witness ==
    /\ error_info.type = "non_fast_forward"
    /\ RuleMatches("network_error", error_message)

\* the status calls made for the current repository, by the health check
\* and by the operation, that listed changes
HealthSawChanges == OutcomeIn(HealthTrace, "git status --porcelain") = "returned 0, output"
OperationSawChanges ==
    OutcomeIn(OperationTrace, "git status --porcelain") = "returned 0, output"

\* every status call made for the current repository listed changes
ChangesListed ==
    /\ HealthSawChanges
    /\ OutcomeIn(OperationTrace, "git status --porcelain")
          \in {"not run", "returned 0, output"}

\* no git pull, and nothing else that writes to the repository, was run
Untouched == \A p \in 1..Len(trace) : trace[p] \notin OperationCommands

\* the result is the SKIPPED warning, sent through success_output
SkippedWarning ==
    /\ result.kind = "success_output"
    /\ Head(result.msg) = WarnMark
    /\ result.msg[3] = "SKIPPED pull - uncommitted changes detected"

\* C8 as stated: on a pull, a repository whose git status --porcelain lists
\* changes is never pulled, is left untouched and is reported with the
\* SKIPPED warning through success_output.
C8_SafePull ==
    (threads[probe].operation = "pull" /\ ChangesListed) =>
        /\ Untouched
        /\ result.kind # "none" => SkippedWarning

\* C8: on a pull, a repository whose git status --porcelain lists changes is
\* never pulled and is left untouched; when it passed the health check it is
\* reported with the SKIPPED warning through success_output.
C8_SafePullWhenHealthy ==
    threads[probe].operation = "pull" =>
        /\ ChangesListed => Untouched
        /\ OperationSawChanges => Untouched /\ SkippedWarning

\* a healthy repository with changes was skipped by a pull
C8_Witness ==
    /\ threads[probe].operation = "pull"
    /\ InTrace("healthy")
    /\ OperationSawChanges
    /\ SkippedWarning

\* a command returned 0
Succeeded(outcome) == outcome \in {"returned 0, output", "returned 0, no output"}

\* C9: push runs add, commit and push in that order when changes are
\* detected; git push is not run after a failed add, nor after a commit that
\* failed for another reason than nothing to commit; when no changes are
\* detected only git push runs.
C9_AddCommitPush ==
    threads[probe].operation = "push" /\ Place(OperationTrace, "git status --porcelain") # 0 =>
        LET ops == OperationTrace
            status == OutcomeIn(ops, "git status --porcelain")
            add == OutcomeIn(ops, "git add .")
            commit == OutcomeIn(ops, "git commit")
            push == OutcomeIn(ops, "git push")
            detected == status \in {"returned 0, output", "raised"}
        IN /\ \A c \in OperationCommands :
                Cardinality({ p \in 1..Len(ops) : ops[p] = c }) <= 1
           /\ detected =>
                /\ add # "not run"
                /\ commit # "not run" =>
                     Succeeded(add) /\ Place(ops, "git add .") < Place(ops, "git commit")
                /\ push # "not run" =>
                     /\ Succeeded(add)
                     /\ Succeeded(commit) \/ commit = "returned non-zero, nothing to commit"
                     /\ Place(ops, "git commit") < Place(ops, "git push")
                /\ Succeeded(add) => commit # "not run"
                /\ (Succeeded(commit) \/ commit = "returned non-zero, nothing to commit")
                     => push # "not run"
           /\ ~detected =>
                add = "not run" /\ commit = "not run" /\ push # "not run"
           /\ ~InTrace("git pull")

\* changes were found, there was nothing new to commit, and the push ran
C9_Witness ==
    /\ threads[probe].operation = "push"
    /\ OutcomeIn(OperationTrace, "git status --porcelain") = "returned 0, output"
    /\ OutcomeIn(OperationTrace, "git commit") = "returned non-zero, nothing to commit"
    /\ OutcomeIn(OperationTrace, "git push") # "not run"

\* finished was emitted once, as the last signal, right after the result of
\* the last repository
FinishedLast ==
    LET n == Len(repositories) IN
    /\ Len(emitted) = 2 * n + 1
    /\ emitted[Len(emitted)] = <<"finished", n + 1>>
    /\ emitted[Len(emitted) - 1][1] \in ResultKinds
    /\ emitted[Len(emitted) - 1][2] = n
    /\ \A p \in 1..(Len(emitted) - 1) : emitted[p][1] # "finished"

\* C10: run comes to an end on every list, whatever the git commands do:
\* finished is emitted, once, after the result of the last repository, and
\* no signal is emitted after it.
C10_Terminates == <>[]FinishedLast

\* a run in which a git command timed out has emitted finished
C10_Witness ==
    /\ FinishedLast
    /\ InTrace("raised")
    /\ threads[probe].state = "returned"

\* a line with nothing but whitespace in it
BlankLine(line) == \A j \in 1..Len(line) : line[j] \in WhiteSpace
\* the number of spaces a line starts with
SpacesInFront(line) ==
    Cardinality({ j \in 1..Len(line) : \A m \in 1..j : line[m] = " " })

C12_AutoCopy ==
    [][process_text =>
        LET input == SplitOn(text, "\n")
            nonblank == { i \in 1..Len(input) : ~BlankLine(input[i]) }
            prepended == nonblank # {} /\ SpacesInFront(input[SetMin(nonblank)]) > 0
        IN IF prepended /\ verify_processing(text, rps_output_text')
           THEN rps_clipboard' = rps_output_text' /\ copy_button' = TRUE
           ELSE UNCHANGED <<rps_clipboard, copy_button>>]_vars

\* the button enabled and the result on the clipboard after process_text,
\* the clipboard having held something else
C12_Witness ==
    /\ copy_button
    /\ processed = <<>>
    /\ rps_clipboard = rps_output_text
    /\ rps_output_text # text
    /\ rps_output_text \notin RpsClips

\* C13: in both Marp converters the left panel percentage is an integer in
\* 10..90 in every state after load_config, whatever the config file holds
\* and whatever the spinbox is turned to, and the two flex percentages of
\* every generated HTML are left_percentage and 100 - left_percentage.
C13_PercentageRange ==
    /\ marp_pc \in {"loaded", "ready"} =>
            left_percentage.x10 \in { 10 * n : n \in 10..90 }
    /\ html_flex # <<>> =>
            /\ html_flex[1].x10 + html_flex[2].x10 = 1000
            /\ marp_pc = "ready" => html_flex[1] = left_percentage

\* C14: split_code_into_columns lays the L lines of the input (trailing
\* blank lines dropped) out in N columns as contiguous blocks in the
\* original order: column c gets floor(L/N) lines and one more if
\* c < L mod N, the sizes sum to L, and the output has ceil(L/N) rows.
C14_Distribution ==
    (cs_pc # "input" /\ split_result # NoCodeToSplit) =>
        LET input == PopBlankTail(NormalisedLines(code))
            lines == IF add_line_numbers THEN NumberedLines(input) ELSE input
            L == Len(lines)
            N == num_columns
            size(c) == (L \div N) + (IF c < L % N THEN 1 ELSE 0)
            start[c \in 0..N] == IF c = 0 THEN 0 ELSE start[c - 1] + size(c - 1)
            longest == SetMax({ Len(lines[i]) : i \in 1..L })
            W == IF longest + 2 > 40 THEN longest + 2 ELSE 40
            rows == SplitOn(split_result, "\n")
            \* the W characters of column c (0-based) in row r
            shown(r, c) == SubSeq(LJust(rows[r], N * (W + 1)), c * (W + 1) + 1, c * (W + 1) + W)
        IN /\ start[N] = L
           /\ Len(rows) = (L + N - 1) \div N
           /\ \A c \in 0..(N - 1), r \in 1..Len(rows) :
                shown(r, c) = IF r <= size(c) THEN LJust(lines[start[c] + r], W)
                              ELSE Spaces(W)

\* three lines split into two columns: the first column gets two of them
C14_Witness ==
    /\ cs_pc = "split"
    /\ num_columns = 2
    /\ Len(PopBlankTail(NormalisedLines(code))) = 3
    /\ Len(SplitOn(split_result, "\n")) = 2

\* C15: with line numbers on, line i of the split input is prefixed with i,
\* right-justified to the digit width of the line count, and ": "; joining
\* the split of any text into 1..4 columns removes exactly those prefixes
\* and gives back the original lines, indentation included.
C15_NumberedRoundTrip ==
    LET input == PopBlankTail(NormalisedLines(code))
        rows == SplitOn(split_result, "\n")
    IN /\ (cs_pc # "input" /\ add_line_numbers /\ num_columns = 1) =>
            /\ Len(rows) = Len(input)
            /\ \A i \in 1..Len(input) :
                 rows[i] = RJust(Str(i), Len(Str(Len(input)))) \o <<":", " ">> \o input[i]
       /\ (cs_pc = "joined" /\ add_line_numbers /\ cs_clipboard = split_result) =>
            joined_result = NormalisedCode

\* C16: from the start of a GitWorker until operation_finished has handled
\* its finished signal, the Pull, Push and Refresh buttons stay disabled,
\* whatever else the user does meanwhile (Browse Directory, Health Check,
\* Clear, the buttons of the error widgets).
C16_ButtonsDisabled ==
    (\E w \in WorkerIds : Active(w)) =>
        ~pull_button /\ ~push_button /\ ~refresh_button

\* C17: retrying from an error widget retries the operation for that
\* repository: the worker started runs, on that one repository, the
\* operation (pull or push) whose failure made the widget.
C17_RetrySameOperation ==
    retry_log.kind = "single" =>
        /\ retry_log.started.repositories = <<retry_log.repo_path>>
        /\ retry_log.started.operation = retry_log.failed_operation

\* C18: Retry All Failed after a batch has finished hands the retry worker
\* every repository the batch emitted error_output for, each once, in the
\* order of first occurrence, and no other repository.
C18_RetryAllErrors ==
    (retry_log.kind = "all" /\ retry_log.batch_finished) =>
        LET e == retry_log.errored
            once[k \in 0..Len(e)] ==
                IF k = 0 THEN <<>>
                ELSE IF \E j \in 1..(k - 1) : e[j] = e[k] THEN once[k - 1]
                ELSE Append(once[k - 1], e[k])
        IN retry_log.started.repositories = once[Len(e)]

\* C19: when a git command of a pull or push exceeds its timeout, the worker
\* reports the repository through error_output with analysis type timeout,
\* fix_available false and no commands.
C19_TimeoutReported ==
    (/\ result.kind # "none"
     /\ \E cmd \in OperationCommands : OutcomeIn(OperationTrace, cmd) = "raised") =>
        /\ result.kind = "error_output"
        /\ result.analysis = [type |-> "timeout", fix_available |-> FALSE, commands |-> <<>>]

====
